---- MODULE Spec2Model ----
(***************************************************************************)
(* Model of the partitioned merge-join engine of via-tool:                 *)
(* gaia::Data / gaia::Records (crates/via-tool/src/gaia/mod.rs).           *)
(*                                                                         *)
(* Option<T> is modelled as a sequence of length at most one:              *)
(* None is <<>> and Some(x) is <<x>>.                                      *)
(* A file is the sequence of the source_ids of its rows, in file order.    *)
(* A path is identified with the file it names (files do not change        *)
(* during a run).                                                          *)
(***************************************************************************)
EXTENDS Integers, Sequences, FiniteSets, TLC

\* ------------------------------------------------------------------ bounds
\* largest number of partitions in the catalog
MaxParts == 2
\* join keys (source_id) are drawn from 1..MaxKey
MaxKey == 2
\* largest total number of rows over all files of the catalog
MaxRows == 4
\* largest number of entries in the directory Data::open reads
MaxEntries == 3
\* largest number of records in the file render reads, and largest count in its header
MaxRecords == 3
\* largest total number of rows over all files of a catalog that is exported
MaxExportRows == 3

\* ------------------------------------------------------------------ Option
None == <<>>

Some(x) == <<x>>

is_some(o) == o # <<>>

is_none(o) == o = <<>>

unwrap(o) == o[1]

\* ------------------------------------------------------------------ state
VARIABLES
    partitions,             \* Data.partitions, in BTreeMap (ascending start) order
    partitions_iter,        \* Records.partitions_iter: the entries not yet taken
    num_partitions,         \* Records.num_partitions
    current_healpix_range,  \* Records.current_healpix_range
    readers,                \* Records.readers
    buffers,                \* Records.buffers
    out,                    \* the records returned by read_record so far, in order
    log,                    \* the source rows of the "missing GaiaSource" warnings, in order
    returned,               \* what the latest read_record call did
    last_call,              \* the latest call on the Records
    skipped,                \* where skip_file was called: cursor position and Len(out)
    failed_call,            \* the opens and reads of the read_record call that returned Err
    read_dir,               \* the directory Data::open reads: its entries, and the next one
    render,                 \* render: its file, RecordReader, canvas, ctrl_c and position
    export                  \* export: its limit, counters, output file and position

vars == <<partitions, partitions_iter, num_partitions, current_healpix_range,
          readers, buffers, out, log, returned, last_call, skipped, failed_call,
          read_dir, render, export>>

\* ------------------------------------------------------------------ render
\* the file render reads: the count in its header, the records that follow,
\* and whether a read past them stays pending (a stream whose writer is
\* still there) or fails with UnexpectedEof
RenderFile(num_records, records, pending) ==
    [num_records |-> num_records, records |-> records, pending |-> pending]

\* RecordReader::open
RecordReader(file) == [num_records |-> file.num_records, num_read |-> 0]

\* the state of render: reader is its RecordReader, canvas the records drawn,
\* ctrl_c whether the signal fired, pc its position, result what it returned,
\* saved whether canvas.image.save was called, aborted whether the abort
\* branch of the select completed
Render(file, pc) ==
    [file |-> file, reader |-> RecordReader(file), canvas |-> <<>>, ctrl_c |-> FALSE,
     pc |-> pc, result |-> "nothing", saved |-> FALSE, aborted |-> FALSE]

\* no render is running
NotRendering == Render(RenderFile(0, <<>>, FALSE), "idle")

\* RecordReader::read_record on the file; Pending when the read does not complete
reader_read_record(reader, file) ==
    IF reader.num_read >= reader.num_records
    THEN [reader |-> reader, ret |-> "None", record |-> None]
    ELSE IF reader.num_read < Len(file.records)
    THEN [reader |-> [reader EXCEPT !.num_read = reader.num_read + 1],
          ret |-> "Some", record |-> Some(file.records[reader.num_read + 1])]
    ELSE IF file.pending
    THEN [reader |-> reader, ret |-> "Pending", record |-> None]
    ELSE [reader |-> reader, ret |-> "Err", record |-> None]

\* a next_record whose abort branch returns an error
next_record_failing(reader, file, abort_signal) ==
    IF abort_signal
    THEN [reader |-> reader, ret |-> "Err", record |-> None]
    ELSE reader_read_record(reader, file)

\* render::next_record: the select, abort_signal telling which branch completes
next_record(reader, file, abort_signal) ==
    IF abort_signal
    THEN [reader |-> reader, ret |-> "None", record |-> None]
    ELSE reader_read_record(reader, file)

\* ------------------------------------------------------------------ data
Keys == 1..MaxKey

\* the files whose rows are strictly ascending by source_id
RECURSIVE Ascending(_)
Ascending(f) ==
    IF Len(f) < 2 THEN TRUE
    ELSE f[1] < f[2] /\ Ascending(Tail(f))

Files == {f \in UNION {[1..n -> Keys] : n \in 0..MaxKey} : Ascending(f)}

\* HealPixRange as parse_file_name builds it: end is parsed from the same
\* capture group as start
HealPixRange(start) == [start |-> start, end |-> start]

\* a Partition whose start is its place in the BTreeMap order
Partition(start, gs, ap) ==
    [healpix_range |-> HealPixRange(start),
     gaia_source |-> gs,
     astrophysical_parameters |-> ap]

OptFiles == {None} \cup {Some(f) : f \in Files}

NumRows(optfile) == IF is_some(optfile) THEN Len(unwrap(optfile)) ELSE 0

\* the number of rows in the files of the first n of the pairs fs
RECURSIVE TotalRows(_, _)
TotalRows(fs, n) ==
    IF n = 0 THEN 0
    ELSE NumRows(fs[n][1]) + NumRows(fs[n][2]) + TotalRows(fs, n - 1)

\* a row of a file: its join key, and the partition whose file it was read from
Row(source_id, start) == [source_id |-> source_id, partition |-> start]

Default == [gaia_source |-> None, astrophysical_parameters |-> None]

\* ------------------------------------------------------------------ Records
\* a Records whose iterator runs over the partitions in descending order
new_reversed(data) ==
    [partitions_iter |-> [k \in 1..Len(data) |-> Len(data) + 1 - k],
     num_partitions |-> Len(data),
     current_healpix_range |-> None,
     readers |-> Default,
     buffers |-> Default]

\* Data::records / Records::new
new(data) ==
    [partitions_iter |-> [k \in 1..Len(data) |-> k],
     num_partitions |-> Len(data),
     current_healpix_range |-> None,
     readers |-> Default,
     buffers |-> Default]

\* the Records value held in the state variables
self ==
    [partitions_iter |-> partitions_iter,
     num_partitions |-> num_partitions,
     current_healpix_range |-> current_healpix_range,
     readers |-> readers,
     buffers |-> buffers]

\* open_reader: the stream of the rows of the file at path, none read yet
open_reader(path, start) == [k \in 1..Len(path) |-> Row(path[k], start)]

\* the inner read_record: the next row of an open reader; at the end of the
\* file the reader is set to None.  Returns the row and the reader.
read_row(reader_opt) ==
    IF is_some(reader_opt)
    THEN IF unwrap(reader_opt) # <<>>
         THEN [record |-> Some(Head(unwrap(reader_opt))),
               reader |-> Some(Tail(unwrap(reader_opt)))]
         ELSE [record |-> None, reader |-> None]
    ELSE [record |-> None, reader |-> reader_opt]

\* a partition advance that sets the current range once and keeps it afterwards
open_next_partition_keeping(s) ==
    IF is_none(s.readers.gaia_source) /\ is_none(s.readers.astrophysical_parameters)
    THEN IF s.partitions_iter # <<>>
         THEN LET partition == partitions[Head(s.partitions_iter)]
                  start == partition.healpix_range.start
              IN [done |-> FALSE,
                  s |-> [s EXCEPT
                     !.partitions_iter = Tail(s.partitions_iter),
                     !.current_healpix_range =
                         IF is_none(s.current_healpix_range)
                         THEN Some(partition.healpix_range)
                         ELSE s.current_healpix_range,
                     !.readers.gaia_source =
                         IF is_some(partition.gaia_source)
                         THEN Some(open_reader(unwrap(partition.gaia_source), start))
                         ELSE None,
                     !.readers.astrophysical_parameters =
                         IF is_some(partition.astrophysical_parameters)
                         THEN Some(open_reader(unwrap(partition.astrophysical_parameters), start))
                         ELSE None]]
         ELSE [done |-> TRUE, s |-> s]
    ELSE [done |-> FALSE, s |-> s]

\* the first statement of the loop body: open the next partition if there are
\* no readers.  done is TRUE when partitions_iter is exhausted (return Ok(None)).
open_next_partition(s) ==
    IF is_none(s.readers.gaia_source) /\ is_none(s.readers.astrophysical_parameters)
    THEN IF s.partitions_iter # <<>>
         THEN LET partition == partitions[Head(s.partitions_iter)]
                  start == partition.healpix_range.start
              IN [done |-> FALSE,
                  s |-> [s EXCEPT
                     !.partitions_iter = Tail(s.partitions_iter),
                     !.current_healpix_range = Some(partition.healpix_range),
                     !.readers.gaia_source =
                         IF is_some(partition.gaia_source)
                         THEN Some(open_reader(unwrap(partition.gaia_source), start))
                         ELSE None,
                     !.readers.astrophysical_parameters =
                         IF is_some(partition.astrophysical_parameters)
                         THEN Some(open_reader(unwrap(partition.astrophysical_parameters), start))
                         ELSE None]]
         ELSE [done |-> TRUE, s |-> s]
    ELSE [done |-> FALSE, s |-> s]

\* a Record
Record(healpix_range, gaia_source, astrophysical_parameters) ==
    [healpix_range |-> healpix_range,
     gaia_source |-> gaia_source,
     astrophysical_parameters |-> astrophysical_parameters]

\* the result of one pass through the loop body:
\*   ret = "Some"     return Ok(Some(record))
\*   ret = "None"     return Ok(None)
\*   ret = "continue" the end of the body is reached: the loop goes round again
Pass(s, ret, record, warned) == [s |-> s, ret |-> ret, record |-> record, warned |-> warned]

\* a match whose Ordering::Less arm takes the secondary buffer too
match_buffers_taking_both(s) ==
    LET gs == s.buffers.gaia_source
        ap == s.buffers.astrophysical_parameters
    IN  IF is_none(gs) /\ is_some(s.readers.gaia_source)
        THEN LET r == read_row(s.readers.gaia_source)
             IN Pass([s EXCEPT !.buffers.gaia_source = r.record,
                               !.readers.gaia_source = r.reader],
                     "continue", None, None)
        ELSE IF is_none(ap) /\ is_some(s.readers.astrophysical_parameters)
        THEN LET r == read_row(s.readers.astrophysical_parameters)
             IN Pass([s EXCEPT !.buffers.astrophysical_parameters = r.record,
                               !.readers.astrophysical_parameters = r.reader],
                     "continue", None, None)
        ELSE IF is_some(gs) /\ is_some(ap)
        THEN IF unwrap(gs).source_id = unwrap(ap).source_id
             THEN Pass([s EXCEPT !.buffers.gaia_source = None,
                                 !.buffers.astrophysical_parameters = None],
                       "Some",
                       Some(Record(unwrap(s.current_healpix_range), unwrap(gs), ap)),
                       None)
             ELSE IF unwrap(gs).source_id < unwrap(ap).source_id
             THEN Pass([s EXCEPT !.buffers.gaia_source = None,
                                 !.buffers.astrophysical_parameters = None],
                       "Some",
                       Some(Record(unwrap(s.current_healpix_range), unwrap(gs), None)),
                       None)
             ELSE Pass(s, "continue", None, ap)
        ELSE IF is_none(gs) /\ is_some(ap)
        THEN Pass(s, "continue", None, ap)
        ELSE IF is_some(gs) /\ is_none(ap)
        THEN Pass([s EXCEPT !.buffers.gaia_source = None,
                            !.buffers.astrophysical_parameters = None],
                  "Some",
                  Some(Record(unwrap(s.current_healpix_range), unwrap(gs), ap)),
                  None)
        ELSE Pass(s, "continue", None, None)

\* a match whose read arms read whenever the reader is open, over an occupied buffer
match_buffers_overwriting(s) ==
    LET gs == s.buffers.gaia_source
        ap == s.buffers.astrophysical_parameters
    IN  IF is_some(s.readers.gaia_source)
        THEN LET r == read_row(s.readers.gaia_source)
             IN Pass([s EXCEPT !.buffers.gaia_source = r.record,
                               !.readers.gaia_source = r.reader],
                     "continue", None, None)
        ELSE IF is_some(s.readers.astrophysical_parameters)
        THEN LET r == read_row(s.readers.astrophysical_parameters)
             IN Pass([s EXCEPT !.buffers.astrophysical_parameters = r.record,
                               !.readers.astrophysical_parameters = r.reader],
                     "continue", None, None)
        ELSE IF is_some(gs) /\ is_some(ap)
        THEN IF unwrap(gs).source_id = unwrap(ap).source_id
             THEN Pass([s EXCEPT !.buffers.gaia_source = None,
                                 !.buffers.astrophysical_parameters = None],
                       "Some",
                       Some(Record(unwrap(s.current_healpix_range), unwrap(gs), ap)),
                       None)
             ELSE IF unwrap(gs).source_id < unwrap(ap).source_id
             THEN Pass([s EXCEPT !.buffers.gaia_source = None],
                       "Some",
                       Some(Record(unwrap(s.current_healpix_range), unwrap(gs), None)),
                       None)
             ELSE Pass(s, "continue", None, ap)
        ELSE IF is_none(gs) /\ is_some(ap)
        THEN Pass(s, "continue", None, ap)
        ELSE IF is_some(gs) /\ is_none(ap)
        THEN Pass([s EXCEPT !.buffers.gaia_source = None,
                            !.buffers.astrophysical_parameters = None],
                  "Some",
                  Some(Record(unwrap(s.current_healpix_range), unwrap(gs), ap)),
                  None)
        ELSE Pass(s, "continue", None, None)

\* the match on the buffers, its arms tried in source order
match_buffers(s) ==
    LET gs == s.buffers.gaia_source
        ap == s.buffers.astrophysical_parameters
    IN  IF is_none(gs) /\ is_some(s.readers.gaia_source)
        THEN \* read GaiaSource
             LET r == read_row(s.readers.gaia_source)
             IN Pass([s EXCEPT !.buffers.gaia_source = r.record,
                               !.readers.gaia_source = r.reader],
                     "continue", None, None)
        ELSE IF is_none(ap) /\ is_some(s.readers.astrophysical_parameters)
        THEN \* read astrophysical_parameters
             LET r == read_row(s.readers.astrophysical_parameters)
             IN Pass([s EXCEPT !.buffers.astrophysical_parameters = r.record,
                               !.readers.astrophysical_parameters = r.reader],
                     "continue", None, None)
        ELSE IF is_some(gs) /\ is_some(ap)
        THEN IF unwrap(gs).source_id = unwrap(ap).source_id
             THEN \* Ordering::Equal: both buffers are taken
                  Pass([s EXCEPT !.buffers.gaia_source = None,
                                 !.buffers.astrophysical_parameters = None],
                       "Some",
                       Some(Record(unwrap(s.current_healpix_range), unwrap(gs), ap)),
                       None)
             ELSE IF unwrap(gs).source_id < unwrap(ap).source_id
             THEN \* Ordering::Less: only the GaiaSource buffer is taken
                  Pass([s EXCEPT !.buffers.gaia_source = None],
                       "Some",
                       Some(Record(unwrap(s.current_healpix_range), unwrap(gs), None)),
                       None)
             ELSE \* Ordering::Greater: tracing::warn! and nothing else
                  Pass(s, "continue", None, ap)
        ELSE IF is_none(gs) /\ is_some(ap)
        THEN \* tracing::warn! and nothing else
             Pass(s, "continue", None, ap)
        ELSE IF is_some(gs) /\ is_none(ap)
        THEN Pass([s EXCEPT !.buffers.gaia_source = None,
                            !.buffers.astrophysical_parameters = None],
                  "Some",
                  Some(Record(unwrap(s.current_healpix_range), unwrap(gs), ap)),
                  None)
        ELSE \* fetch next records
             Pass(s, "continue", None, None)

\* one pass through the body of the loop of Records::read_record
loop_body(s) ==
    LET o == open_next_partition(s)
    IN IF o.done THEN Pass(o.s, "None", None, None)
       ELSE match_buffers(o.s)

\* Records::read_record: the loop, run until it returns.  A pass that reaches
\* the end of the body and leaves the Records as it found it is followed by
\* the same pass again, without end (the body is deterministic and reads only
\* the Records): the call never returns, ret = "never".  The warnings of the
\* first two such passes are kept in warned; the rest repeat them.
RECURSIVE read_record(_, _)
loop_again(s, warned, p) ==
    IF p.ret # "continue" THEN [p EXCEPT !.warned = warned]
    ELSE IF p.s = s
         THEN Pass(s, "never", None, warned \o p.warned \o p.warned)
         ELSE read_record(p.s, warned \o p.warned)

read_record(s, warned) == loop_again(s, warned, loop_body(s))

\* an open_reader call or a try_next call, on the file of a table, and whether
\* it succeeded
Io(op, table, ok) == [op |-> op, table |-> table, ok |-> ok]

\* the open_reader calls of one pass through the loop body, in order
opens(s) ==
    IF /\ is_none(s.readers.gaia_source)
       /\ is_none(s.readers.astrophysical_parameters)
       /\ s.partitions_iter # <<>>
    THEN (IF is_some(partitions[Head(s.partitions_iter)].gaia_source)
          THEN <<Io("open", "gaia_source", TRUE)>> ELSE <<>>)
         \o (IF is_some(partitions[Head(s.partitions_iter)].astrophysical_parameters)
             THEN <<Io("open", "astrophysical_parameters", TRUE)>> ELSE <<>>)
    ELSE <<>>

\* the try_next call of the match of one pass, o being the outcome of the
\* partition advance of that pass
reads(o) ==
    IF o.done THEN <<>>
    ELSE IF is_none(o.s.buffers.gaia_source) /\ is_some(o.s.readers.gaia_source)
    THEN <<Io("read", "gaia_source", TRUE)>>
    ELSE IF /\ is_none(o.s.buffers.astrophysical_parameters)
            /\ is_some(o.s.readers.astrophysical_parameters)
    THEN <<Io("read", "astrophysical_parameters", TRUE)>>
    ELSE <<>>

\* the awaited I/O of one pass through the loop body, in order
io_ops(s) == opens(s) \o reads(open_next_partition(s))

\* the Records when the i-th awaited I/O of the pass fails and `?` returns:
\* a failed open leaves its reader (and the reader of the file not yet
\* opened) None, after the cursor and the current range have moved; a failed
\* read returns before the buffer is assigned and before the reader is closed
fail_pass(s, i) ==
    IF i <= Len(opens(s))
    THEN [s EXCEPT
            !.partitions_iter = Tail(s.partitions_iter),
            !.current_healpix_range =
                Some(partitions[Head(s.partitions_iter)].healpix_range),
            !.readers.gaia_source =
                IF opens(s)[i].table = "gaia_source" THEN None
                ELSE open_next_partition(s).s.readers.gaia_source]
    ELSE open_next_partition(s).s

\* a read_record that reports the failure of the i-th I/O of a pass and
\* carries on with the loop instead of returning it
failed_swallowed(s, ops, io, i) ==
    [read_record(fail_pass(s, i), <<>>) EXCEPT
        !.warned = ops \o SubSeq(io, 1, i - 1) \o <<[io[i] EXCEPT !.ok = FALSE]>>
                   \o io_ops(fail_pass(s, i))]

\* the outcome of a read_record call whose pass from s meets a failure in its
\* i-th I/O (io = io_ops(s)), after the I/O ops of the earlier passes:
\* return Err(..) at once.  The I/O of the call is carried in warned (a call
\* that warns makes no I/O afterwards: see read_record).
failed(s, ops, io, i) ==
    Pass(fail_pass(s, i), "Err", None,
         ops \o SubSeq(io, 1, i - 1) \o <<[io[i] EXCEPT !.ok = FALSE]>>)

\* the outcomes of the read_record calls from s in which one I/O fails, one
\* outcome for each open and read the call would make
RECURSIVE read_record_failures(_, _)
failures_again(s, ops, p, io) ==
    {failed(s, ops, io, i) : i \in 1..Len(io)}
    \cup (IF p.ret # "continue" \/ p.s = s THEN {}
          ELSE read_record_failures(p.s, ops \o io))

read_record_failures(s, ops) == failures_again(s, ops, loop_body(s), io_ops(s))

\* a skip_file that also takes the next entry of partitions_iter
skip_file_advancing(s) ==
    [s EXCEPT !.readers = Default,
              !.partitions_iter = IF s.partitions_iter = <<>> THEN <<>>
                                  ELSE Tail(s.partitions_iter)]

\* a skip_file that starts the iteration over the partitions again
skip_file_rewinding(s) ==
    [s EXCEPT !.readers = Default,
              !.partitions_iter = [k \in 1..s.num_partitions |-> k]]

\* Records::skip_file
skip_file(s) == [s EXCEPT !.readers = Default]

\* a progress that reports the entries left in partitions_iter
progress_remaining(s) == <<Len(s.partitions_iter), s.num_partitions>>

\* a progress that counts a partition only once both its readers are closed
progress_drained(s) ==
    <<s.num_partitions - Len(s.partitions_iter)
        - (IF s.readers = Default \/ s.num_partitions = Len(s.partitions_iter)
           THEN 0 ELSE 1),
      s.num_partitions>>

\* Records::progress
progress(s) == <<s.num_partitions - Len(s.partitions_iter), s.num_partitions>>

\* ------------------------------------------------------------------ export
\* the values of --limit-per-file
Limits == {1, 2}

\* write_u64 / write_u32 / write_f64 / write_f32: the n bytes of v, big-endian
\* (a float is written as its bit pattern)
RECURSIVE be_bytes(_, _)
be_bytes(v, n) ==
    IF n = 0 THEN <<>>
    ELSE Append(be_bytes(v \div 256, n - 1), v % 256)

\* read_u64 / read_u32 / read_f64 / read_f32: the value of big-endian bytes
RECURSIVE from_be_bytes(_)
from_be_bytes(bytes) ==
    IF bytes = <<>> THEN 0
    ELSE 256 * from_be_bytes(SubSeq(bytes, 1, Len(bytes) - 1)) + bytes[Len(bytes)]

\* the five columns of a GaiaSource row that Record::from_gaia needs, as bit
\* patterns, distinct per column; None for all five when the row lacks one
Columns(row, complete) ==
    IF row.source_id \in complete
    THEN Some([parallax |-> 10 + row.source_id,
               l |-> 20 + row.source_id,
               b |-> 30 + row.source_id,
               teff_gspphot |-> 40 + row.source_id,
               phot_g_mean_mag |-> 50 + row.source_id])
    ELSE None

\* render::Record::from_gaia
from_gaia(record, complete) ==
    IF is_some(Columns(record.gaia_source, complete))
    THEN Some([source_id |-> record.gaia_source.source_id,
               healpix_range |-> record.healpix_range,
               parallax |-> unwrap(Columns(record.gaia_source, complete)).parallax,
               longitude |-> unwrap(Columns(record.gaia_source, complete)).l,
               latitude |-> unwrap(Columns(record.gaia_source, complete)).b,
               t_eff |-> unwrap(Columns(record.gaia_source, complete)).teff_gspphot,
               apparent_magnitude |->
                   unwrap(Columns(record.gaia_source, complete)).phot_g_mean_mag])
    ELSE None

\* render::Record::write: the bytes written
write(record) ==
    be_bytes(record.source_id, 8)
    \o be_bytes(record.healpix_range.start, 4)
    \o be_bytes(record.healpix_range.end, 4)
    \o be_bytes(record.parallax, 8)
    \o be_bytes(record.longitude, 8)
    \o be_bytes(record.latitude, 8)
    \o be_bytes(record.t_eff, 4)
    \o be_bytes(record.apparent_magnitude, 4)

\* the number of bytes of a written record
RecordLen == Len(write([source_id |-> 0, healpix_range |-> HealPixRange(0),
                        parallax |-> 0, longitude |-> 0, latitude |-> 0,
                        t_eff |-> 0, apparent_magnitude |-> 0]))

\* a Record::read that reads the latitude before the longitude
read_swapped(bytes) ==
    [source_id |-> from_be_bytes(SubSeq(bytes, 1, 8)),
     healpix_range |-> [start |-> from_be_bytes(SubSeq(bytes, 9, 12)),
                        end |-> from_be_bytes(SubSeq(bytes, 13, 16))],
     parallax |-> from_be_bytes(SubSeq(bytes, 17, 24)),
     latitude |-> from_be_bytes(SubSeq(bytes, 25, 32)),
     longitude |-> from_be_bytes(SubSeq(bytes, 33, 40)),
     t_eff |-> from_be_bytes(SubSeq(bytes, 41, 44)),
     apparent_magnitude |-> from_be_bytes(SubSeq(bytes, 45, 48))]

\* render::Record::read: the record of the next bytes of the reader
read(bytes) ==
    [source_id |-> from_be_bytes(SubSeq(bytes, 1, 8)),
     healpix_range |-> [start |-> from_be_bytes(SubSeq(bytes, 9, 12)),
                        end |-> from_be_bytes(SubSeq(bytes, 13, 16))],
     parallax |-> from_be_bytes(SubSeq(bytes, 17, 24)),
     longitude |-> from_be_bytes(SubSeq(bytes, 25, 32)),
     latitude |-> from_be_bytes(SubSeq(bytes, 33, 40)),
     t_eff |-> from_be_bytes(SubSeq(bytes, 41, 44)),
     apparent_magnitude |-> from_be_bytes(SubSeq(bytes, 45, 48))]

\* the state of export: file is the content of the output file, complete the
\* source_ids of the GaiaSource rows that have all five columns
Export(limit_per_file, complete, pc) ==
    [limit_per_file |-> limit_per_file, complete |-> complete,
     count |-> 0, count_per_file |-> 0,
     file |-> IF pc = "idle" THEN <<>> ELSE be_bytes(0, 8),
     pc |-> pc]

\* no export is running
NotExporting == Export(0, {}, "idle")

\* an export that writes the count after the records, without the seek
finish_appending(e) ==
    [e EXCEPT !.file = e.file \o be_bytes(e.count, 8), !.pc = "done"]

\* after the loop of export: seek to the start, write the count, flush
finish(e) ==
    [e EXCEPT !.file = be_bytes(e.count, 8) \o SubSeq(e.file, 9, Len(e.file)),
              !.pc = "done"]

\* the body of the while loop of export for a record read_record returned,
\* s being the Records after the call: the export, the Records, and whether
\* skip_file was called
written(e, s, record) ==
    IF is_none(from_gaia(record, e.complete)) THEN [e |-> e, s |-> s, skip |-> FALSE]
    ELSE IF e.count_per_file + 1 >= e.limit_per_file
    THEN [e |-> [e EXCEPT !.file = e.file \o write(unwrap(from_gaia(record, e.complete))),
                          !.count = e.count + 1,
                          !.count_per_file = 0],
          s |-> skip_file(s), skip |-> TRUE]
    ELSE [e |-> [e EXCEPT !.file = e.file \o write(unwrap(from_gaia(record, e.complete))),
                          !.count = e.count + 1,
                          !.count_per_file = e.count_per_file + 1],
          s |-> s, skip |-> FALSE]

\* the records Record::read yields from the bytes after the 8-byte count, one
\* per RecordLen bytes
RECURSIVE read_all(_)
read_all(bytes) ==
    IF Len(bytes) < RecordLen THEN <<>>
    ELSE <<read(SubSeq(bytes, 1, RecordLen))>>
         \o read_all(SubSeq(bytes, RecordLen + 1, Len(bytes)))

\* ------------------------------------------------------------------ actions
Init ==
    \* the catalogs Data::open can produce: partitions keyed and ordered by
    \* start, each holding an optional path per table
    /\ \E n \in 0..MaxParts : \E fs \in [1..n -> OptFiles \X OptFiles] :
          /\ TotalRows(fs, n) <= MaxRows
          /\ partitions = [k \in 1..n |-> Partition(k, fs[k][1], fs[k][2])]
    /\ partitions_iter = new(partitions).partitions_iter
    /\ num_partitions = new(partitions).num_partitions
    /\ current_healpix_range = new(partitions).current_healpix_range
    /\ readers = new(partitions).readers
    /\ buffers = new(partitions).buffers
    /\ out = <<>>
    /\ log = <<>>
    /\ returned = "nothing"
    /\ last_call = "new"
    /\ skipped = {}
    /\ failed_call = <<>>
    /\ read_dir = [entries |-> <<>>, next |-> 1]
    /\ render = NotRendering
    /\ export = NotExporting

\* the caller awaits read_record().  A caller whose call never returns makes
\* no further call, and export and the Test command return the first Err
\* with `?` (render.rs:205, main.rs:78).
ReadRecord ==
    /\ returned \notin {"never", "Err"}
    /\ \E r \in {read_record(self, <<>>)} :
          /\ partitions_iter' = r.s.partitions_iter
          /\ num_partitions' = r.s.num_partitions
          /\ current_healpix_range' = r.s.current_healpix_range
          /\ readers' = r.s.readers
          /\ buffers' = r.s.buffers
          /\ out' = out \o r.record
          /\ log' = log \o r.warned
          /\ returned' = r.ret
    /\ last_call' = "read_record"
    /\ UNCHANGED <<partitions, skipped, failed_call, read_dir, render, export>>

\* the caller calls skip_file() between two read_record calls
SkipFile ==
    /\ returned \notin {"never", "Err"}
    /\ \E s \in {skip_file(self)} :
          /\ partitions_iter' = s.partitions_iter
          /\ num_partitions' = s.num_partitions
          /\ current_healpix_range' = s.current_healpix_range
          /\ readers' = s.readers
          /\ buffers' = s.buffers
    /\ last_call' = "skip_file"
    /\ skipped' = skipped \cup {[partition |-> progress(self)[1], yielded |-> Len(out)]}
    /\ UNCHANGED <<partitions, out, log, returned, failed_call, read_dir, render, export>>

Next == ReadRecord \/ SkipFile

Spec == Init /\ [][Next]_vars

\* the caller awaits read_record() and an open or a read of the call fails
ReadRecordFails ==
    /\ returned \notin {"never", "Err"}
    /\ \E r \in read_record_failures(self, <<>>) :
          /\ partitions_iter' = r.s.partitions_iter
          /\ num_partitions' = r.s.num_partitions
          /\ current_healpix_range' = r.s.current_healpix_range
          /\ readers' = r.s.readers
          /\ buffers' = r.s.buffers
          /\ out' = out \o r.record
          /\ returned' = r.ret
          /\ failed_call' = r.warned
    /\ last_call' = "read_record"
    /\ UNCHANGED <<partitions, log, skipped, read_dir, render, export>>

NextErr == ReadRecord \/ SkipFile \/ ReadRecordFails

\* the engine over files whose opens and reads can fail
SpecErr == Init /\ [][NextErr]_vars

\* the Records left behind when a read_record call from s is dropped while
\* suspended in an open_reader or try_next call: the assignment that awaits
\* the call has not been made, everything before it has (the same Records as
\* when the call returns the error of that I/O)
cancelled(s) == {r.s : r \in read_record_failures(s, <<>>)}

\* the caller drops a read_record call at one of its suspension points
ReadRecordCancelled ==
    /\ returned \notin {"never", "Err"}
    /\ \E s \in cancelled(self) :
          /\ partitions_iter' = s.partitions_iter
          /\ num_partitions' = s.num_partitions
          /\ current_healpix_range' = s.current_healpix_range
          /\ readers' = s.readers
          /\ buffers' = s.buffers
    /\ last_call' = "cancelled"
    /\ UNCHANGED <<partitions, out, log, returned, skipped, failed_call, read_dir,
                   render, export>>

NextCancel == ReadRecord \/ ReadRecordCancelled

\* read_record calls, some of them dropped before they return
SpecCancel == Init /\ [][NextCancel]_vars

\* ------------------------------------------------------------------ Data::open
\* a file name: whether FILE_NAME_REGEX matches it and, if so, its three
\* capture groups.  The path of an entry is identified with its file name.
FileName(matches, prefix, start, end) ==
    [matches |-> matches, prefix |-> prefix, start |-> start, end |-> end]

Prefixes == {"GaiaSource", "AstrophysicalParameters", "Other"}

\* the file names of a directory: {prefix}_{start}-{end}.csv.gz with end one or
\* two after start, and one name the regex does not match
FileNames ==
    {FileName(TRUE, prefix, start, start + d) :
        prefix \in Prefixes, start \in 1..MaxParts, d \in 1..2}
    \cup {FileName(FALSE, "README", 0, 0)}

\* the directory listings: distinct file names, in the order read_dir yields them
Listings ==
    {es \in UNION {[1..n -> FileNames] : n \in 0..MaxEntries} :
        \A i, j \in DOMAIN es : i # j => es[i] # es[j]}

\* a parse_file_name that parses end from capture group 3
parse_file_name_third(file_name) ==
    IF file_name.matches
    THEN Some([prefix |-> file_name.prefix,
               healpix_range |-> [start |-> file_name.start, end |-> file_name.end]])
    ELSE None

\* parse_file_name: start and end are both parsed from capture group 2
parse_file_name(file_name) ==
    IF file_name.matches
    THEN Some([prefix |-> file_name.prefix, healpix_range |-> HealPixRange(file_name.start)])
    ELSE None

\* BTreeMap::entry(start).or_insert_with(..): the map with the partition
\* inserted in key order unless the key is present
or_insert_with(map, partition) ==
    IF \E k \in DOMAIN map : map[k].healpix_range.start = partition.healpix_range.start
    THEN map
    ELSE SelectSeq(map, LAMBDA q : q.healpix_range.start < partition.healpix_range.start)
         \o <<partition>>
         \o SelectSeq(map, LAMBDA q : q.healpix_range.start > partition.healpix_range.start)

\* a loop body that inserts a fresh partition holding only the path of the entry
open_entry_replacing(map, file_name) ==
    IF is_none(parse_file_name(file_name)) THEN map
    ELSE IF file_name.prefix \notin {"GaiaSource", "AstrophysicalParameters"} THEN map
    ELSE SelectSeq(map, LAMBDA q : q.healpix_range.start < file_name.start)
         \o <<Partition(file_name.start,
                        IF file_name.prefix = "GaiaSource" THEN Some(file_name) ELSE None,
                        IF file_name.prefix = "GaiaSource" THEN None ELSE Some(file_name))>>
         \o SelectSeq(map, LAMBDA q : q.healpix_range.start > file_name.start)

\* the Partition or_insert_with builds for a parsed file name: the parsed
\* range and no path
new_partition(file_name) ==
    [healpix_range |-> unwrap(parse_file_name(file_name)).healpix_range,
     gaia_source |-> None,
     astrophysical_parameters |-> None]

\* the body of the while loop of Data::open for one directory entry
open_entry(map, file_name) ==
    IF is_none(parse_file_name(file_name)) THEN map
    ELSE [k \in DOMAIN or_insert_with(map, new_partition(file_name)) |->
            IF or_insert_with(map, new_partition(file_name))[k]
                   .healpix_range.start
                   # unwrap(parse_file_name(file_name)).healpix_range.start
            THEN or_insert_with(map, new_partition(file_name))[k]
            ELSE IF file_name.prefix = "GaiaSource"
            THEN [or_insert_with(map, new_partition(file_name))[k]
                     EXCEPT !.gaia_source = Some(file_name)]
            ELSE IF file_name.prefix = "AstrophysicalParameters"
            THEN [or_insert_with(map, new_partition(file_name))[k]
                     EXCEPT !.astrophysical_parameters = Some(file_name)]
            ELSE or_insert_with(map, new_partition(file_name))[k]]

\* Data::open: the loop over the entries, from the n-th on
RECURSIVE open(_, _, _)
open(map, entries, n) ==
    IF n > Len(entries) THEN map
    ELSE open(open_entry(map, entries[n]), entries, n + 1)

\* before Data::open: a directory, and no Data yet
InitOpen ==
    /\ read_dir \in {[entries |-> es, next |-> 1] : es \in Listings}
    /\ partitions = <<>>
    /\ partitions_iter = <<>>
    /\ num_partitions = 0
    /\ current_healpix_range = None
    /\ readers = Default
    /\ buffers = Default
    /\ out = <<>>
    /\ log = <<>>
    /\ returned = "nothing"
    /\ last_call = "none"
    /\ skipped = {}
    /\ failed_call = <<>>
    /\ render = NotRendering
    /\ export = NotExporting

\* Data::open(path)
DataOpen ==
    /\ last_call = "none"
    /\ partitions' = open(<<>>, read_dir.entries, read_dir.next)
    /\ read_dir' = [read_dir EXCEPT !.next = Len(read_dir.entries) + 1]
    /\ last_call' = "open"
    /\ UNCHANGED <<partitions_iter, num_partitions, current_healpix_range, readers,
                   buffers, out, log, returned, skipped, failed_call, render, export>>

\* Data::open over the directories
SpecOpen == InitOpen /\ [][DataOpen]_vars

\* ------------------------------------------------------------------ render, steps
\* the files: the records are numbered, the header count is any number
RenderFiles ==
    {RenderFile(num_records, [i \in 1..m |-> i], pending) :
        num_records \in 0..MaxRecords, m \in 0..MaxRecords, pending \in BOOLEAN}

\* render after RecordReader::open, at the head of the while loop
InitRender ==
    /\ render \in {Render(file, "loop") : file \in RenderFiles}
    /\ read_dir = [entries |-> <<>>, next |-> 1]
    /\ partitions = <<>>
    /\ partitions_iter = <<>>
    /\ num_partitions = 0
    /\ current_healpix_range = None
    /\ readers = Default
    /\ buffers = Default
    /\ out = <<>>
    /\ log = <<>>
    /\ returned = "nothing"
    /\ last_call = "none"
    /\ skipped = {}
    /\ failed_call = <<>>
    /\ export = NotExporting

\* tokio::signal::ctrl_c completes
CtrlC ==
    /\ render.pc = "loop"
    /\ ~render.ctrl_c
    /\ render' = [render EXCEPT !.ctrl_c = TRUE]
    /\ UNCHANGED <<partitions, partitions_iter, num_partitions, current_healpix_range,
                   readers, buffers, out, log, returned, last_call, skipped,
                   failed_call, read_dir, export>>

\* one turn of the while loop of render, and what follows the loop: a branch
\* of the select completes (the abort branch can once ctrl_c fired); Some draws
\* the record, None leaves the loop and saves the image, Err returns it
NextRecord ==
    /\ render.pc = "loop"
    /\ \E abort_signal \in (IF render.ctrl_c THEN BOOLEAN ELSE {FALSE}) :
        \E r \in {next_record(render.reader, render.file, abort_signal)} :
           /\ r.ret # "Pending"
           /\ render' =
                IF r.ret = "Some"
                THEN [render EXCEPT !.reader = r.reader,
                                    !.canvas = Append(render.canvas, unwrap(r.record))]
                ELSE IF r.ret = "None"
                THEN [render EXCEPT !.reader = r.reader, !.pc = "done", !.saved = TRUE,
                                    !.result = "Ok", !.aborted = abort_signal]
                ELSE [render EXCEPT !.reader = r.reader, !.pc = "done",
                                    !.result = "Err", !.aborted = abort_signal]
    /\ UNCHANGED <<partitions, partitions_iter, num_partitions, current_healpix_range,
                   readers, buffers, out, log, returned, last_call, skipped,
                   failed_call, read_dir, export>>

NextRender == CtrlC \/ NextRecord

\* render; the runtime polls the task while a branch of the select can complete
SpecRender == InitRender /\ [][NextRender]_vars /\ WF_vars(NextRecord)

\* ------------------------------------------------------------------ export, steps
\* export after Data::open, data.records(), File::create and write_u64(0)
InitExport ==
    /\ \E n \in 0..MaxParts : \E fs \in [1..n -> OptFiles \X OptFiles] :
          /\ TotalRows(fs, n) <= MaxExportRows
          /\ partitions = [k \in 1..n |-> Partition(k, fs[k][1], fs[k][2])]
    /\ partitions_iter = new(partitions).partitions_iter
    /\ num_partitions = new(partitions).num_partitions
    /\ current_healpix_range = new(partitions).current_healpix_range
    /\ readers = new(partitions).readers
    /\ buffers = new(partitions).buffers
    /\ out = <<>>
    /\ log = <<>>
    /\ returned = "nothing"
    /\ last_call = "new"
    /\ skipped = {}
    /\ failed_call = <<>>
    /\ read_dir = [entries |-> <<>>, next |-> 1]
    /\ render = NotRendering
    \* every row has its five columns, or the rows of one source_id lack one
    /\ export \in {Export(limit_per_file, complete, "loop") :
                      limit_per_file \in Limits,
                      complete \in {Keys} \cup {Keys \ {k} : k \in Keys}}

\* one turn of the while loop of export: read_record, then the body for a
\* record, or what follows the loop at Ok(None); a read_record that never
\* returns leaves export waiting
ExportTurn ==
    /\ export.pc = "loop"
    /\ \E r \in {read_record(self, <<>>)} :
          /\ out' = out \o r.record
          /\ log' = log \o r.warned
          /\ returned' = r.ret
          /\ \E w \in {IF r.ret = "Some" THEN written(export, r.s, unwrap(r.record))
                       ELSE IF r.ret = "None"
                       THEN [e |-> finish(export), s |-> r.s, skip |-> FALSE]
                       ELSE [e |-> [export EXCEPT !.pc = "waiting"], s |-> r.s,
                             skip |-> FALSE]} :
                /\ export' = w.e
                /\ partitions_iter' = w.s.partitions_iter
                /\ num_partitions' = w.s.num_partitions
                /\ current_healpix_range' = w.s.current_healpix_range
                /\ readers' = w.s.readers
                /\ buffers' = w.s.buffers
                /\ last_call' = IF w.skip THEN "skip_file" ELSE "read_record"
                /\ skipped' = IF w.skip
                              THEN skipped \cup {[partition |-> progress(r.s)[1],
                                                  yielded |-> Len(out')]}
                              ELSE skipped
    /\ UNCHANGED <<partitions, failed_call, read_dir, render>>

\* RecordReader::open on the file export wrote: read_u64, the records to be
\* read from the bytes that follow
RenderOpen ==
    /\ export.pc = "done"
    /\ render.pc = "idle"
    /\ render' = Render(RenderFile(from_be_bytes(SubSeq(export.file, 1, 8)),
                                   read_all(SubSeq(export.file, 9, Len(export.file))),
                                   FALSE),
                        "loop")
    /\ UNCHANGED <<partitions, partitions_iter, num_partitions, current_healpix_range,
                   readers, buffers, out, log, returned, last_call, skipped,
                   failed_call, read_dir, export>>

NextExport == ExportTurn \/ RenderOpen \/ NextRecord

\* export, and render on the file it wrote
SpecExport == InitExport /\ [][NextExport]_vars

\* ------------------------------------------------------------------ observers
Range(f) == {f[i] : i \in DOMAIN f}

IsPrefix(a, b) == Len(a) <= Len(b) /\ a = SubSeq(b, 1, Len(a))

Count(f, x) == Cardinality({i \in DOMAIN f : f[i] = x})

\* the place in the catalog of the partition the cursor is on (0: before the first)
cursor == progress(self)[1]

\* the rows of an optional file of partition k
RowsOf(optfile, k) == IF is_some(optfile) THEN open_reader(unwrap(optfile), k) ELSE <<>>

PrimaryRows(k) == RowsOf(partitions[k].gaia_source, k)

SecondaryRows(k) == RowsOf(partitions[k].astrophysical_parameters, k)

KeysOf(rows) == {rows[i].source_id : i \in DOMAIN rows}

\* the records returned so far that carry the range of partition k
IsOf(k, record) == record.healpix_range.start = k

RecordsOf(k) == SelectSeq(out, LAMBDA record : IsOf(k, record))

\* no further record of partition k can be returned: the cursor is past it,
\* the stream has ended, or the pending call never returns
Finished(k) == cursor > k \/ (cursor = k /\ returned \in {"None", "never"})

\* skip_file was never called while the cursor was on partition k
NoSkipIn(k) == \A e \in skipped : e.partition # k

HasBoth(k) ==
    is_some(partitions[k].gaia_source) /\ is_some(partitions[k].astrophysical_parameters)

PrimaryOnly(k) ==
    is_some(partitions[k].gaia_source) /\ is_none(partitions[k].astrophysical_parameters)

SecondaryOnly(k) ==
    is_none(partitions[k].gaia_source) /\ is_some(partitions[k].astrophysical_parameters)

\* the left join of the two files of partition k
LeftJoin(k) ==
    [i \in DOMAIN PrimaryRows(k) |->
        Record(partitions[k].healpix_range, PrimaryRows(k)[i],
               IF PrimaryRows(k)[i].source_id \in KeysOf(SecondaryRows(k))
               THEN Some(PrimaryRows(k)[i]) ELSE None)]

\* the primary rows of partition k, each with secondary = None
PrimaryAlone(k) ==
    [i \in DOMAIN PrimaryRows(k) |->
        Record(partitions[k].healpix_range, PrimaryRows(k)[i], None)]

\* ------------------------------------------------------------------ claims

C2_EveryCallReturns == returned # "never"

\* C3: for a partition with only a primary file on which skip_file is not
\* called, the records returned are its primary rows, each exactly once, in
\* order, with secondary = None, all before any record of a later partition.
C3_PrimaryOnly ==
    \A k \in DOMAIN partitions :
        (PrimaryOnly(k) /\ NoSkipIn(k) /\ cursor >= k) =>
            /\ IsPrefix(RecordsOf(k), PrimaryAlone(k))
            /\ Finished(k) => RecordsOf(k) = PrimaryAlone(k)
            /\ \A i, j \in DOMAIN out :
                   (i < j /\ out[i].healpix_range.start > k) => ~IsOf(k, out[j])

\* C4: for a partition with both files and identical key sets, every record
\* returned from it has secondary = Some(row) with the key of its primary row,
\* and the keys of successive records strictly increase.
C4_IdenticalKeys ==
    \A k \in DOMAIN partitions :
        (HasBoth(k) /\ KeysOf(PrimaryRows(k)) = KeysOf(SecondaryRows(k))) =>
            /\ \A i \in DOMAIN RecordsOf(k) :
                   /\ is_some(RecordsOf(k)[i].astrophysical_parameters)
                   /\ unwrap(RecordsOf(k)[i].astrophysical_parameters).source_id
                          = RecordsOf(k)[i].gaia_source.source_id
            /\ \A i, j \in DOMAIN RecordsOf(k) :
                   i < j => RecordsOf(k)[i].gaia_source.source_id
                                < RecordsOf(k)[j].gaia_source.source_id

\* a secondary row of partition k with no equal-or-greater primary key in
\* the primary file of partition k
Unmatched(k) ==
    {row \in Range(SecondaryRows(k)) :
        \A key \in KeysOf(PrimaryRows(k)) : key < row.source_id}

\* C5: a secondary row with no equal-or-greater primary key in its partition
\* is dropped: it is the secondary of no returned record, and once its
\* partition (on which skip_file was not called) is finished a warning has
\* been recorded for it.
C5_UnmatchedDropped ==
    \A k \in DOMAIN partitions : \A row \in Unmatched(k) :
        /\ \A i \in DOMAIN out : out[i].astrophysical_parameters # Some(row)
        /\ (NoSkipIn(k) /\ Finished(k)) => row \in Range(log)

\* an orphan: a secondary row whose key is the key of no primary row of its partition
Orphans(k) ==
    {row \in Range(SecondaryRows(k)) : row.source_id \notin KeysOf(PrimaryRows(k))}

\* C6: exactly one warning per orphan secondary row: a secondary row is never
\* warned about more than once, a row that is no orphan never, and an orphan
\* once by the time its partition (not skipped) is finished.
C6_OneWarningPerOrphan ==
    \A k \in DOMAIN partitions : \A row \in Range(SecondaryRows(k)) :
        NoSkipIn(k) =>
            /\ Count(log, row) <= 1
            /\ row \notin Orphans(k) => Count(log, row) = 0
            /\ (row \in Orphans(k) /\ Finished(k)) => Count(log, row) = 1

\* C7: a partition with only a secondary file contributes no record, and the
\* read_record call that reaches it goes past it: the cursor is on such a
\* partition only when the stream has ended there.
C7_SecondaryOnly ==
    \A k \in DOMAIN partitions :
        SecondaryOnly(k) =>
            /\ RecordsOf(k) = <<>>
            /\ cursor = k => returned = "None"

\* C8: after skip_file is called with N records returned, no row of the
\* partition the cursor was on appears in a later record (as primary or as
\* secondary), and every later record has the range of a later partition.
C8_SkipDiscardsPartition ==
    \A e \in skipped : \A i \in DOMAIN out :
        i > e.yielded =>
            /\ out[i].gaia_source.partition # e.partition
            /\ \A row \in Range(out[i].astrophysical_parameters) :
                   row.partition # e.partition
            /\ out[i].healpix_range.start > e.partition

\* C9: immediately after skip_file returns, both readers are None and both
\* buffers are None.
C9_SkipClearsAll ==
    last_call = "skip_file" => (readers = Default /\ buffers = Default)

\* C10: skip_file does not move the partition cursor: progress() is the same
\* pair before and after it, and it leaves both readers closed.  The cursor
\* moves only in read_record calls, and the read_record call that follows a
\* skip_file moves it whenever a partition remains.
C10_SkipKeepsCursor ==
    [][/\ last_call' = "skip_file" =>
              /\ progress(self)' = progress(self)
              /\ readers' = Default
       /\ progress(self)' # progress(self) => last_call' = "read_record"
       /\ (last_call = "skip_file" /\ last_call' = "read_record"
              /\ partitions_iter # <<>>) =>
              progress(self)'[1] > progress(self)[1]]_vars

\* skip_file has been called in the middle of a partition that has returned a
\* record, with a secondary row buffered and partitions left to advance to
C10_Witness ==
    /\ last_call = "skip_file"
    /\ out # <<>>
    /\ is_some(buffers.astrophysical_parameters)
    /\ partitions_iter # <<>>
    /\ progress(self) = <<1, 2>>

\* C11: across any sequence of read_record and skip_file calls the completed
\* component of progress() never decreases, the total component never
\* changes, and 0 <= completed <= total in every reachable state.
C11_ProgressMonotone ==
    /\ [](/\ 0 <= progress(self)[1]
          /\ progress(self)[1] <= progress(self)[2])
    /\ [][/\ progress(self)'[1] >= progress(self)[1]
          /\ progress(self)'[2] = progress(self)[2]]_vars

\* the cursor has moved over two partitions, with a skip_file on the way
C11_Witness ==
    /\ progress(self) = <<2, 2>>
    /\ skipped # {}
    /\ returned = "Some"

C13_CompletedIsStarted ==
    /\ returned = "Some" =>
           /\ progress(self) = <<out[Len(out)].healpix_range.start, num_partitions>>
           /\ progress(self)[1] = out[Len(out)].gaia_source.partition
    /\ returned = "None" => progress(self) = <<num_partitions, num_partitions>>

\* two partitions, the first primary-only and the second joined: the last
\* record of the first has just been returned and progress() is (1, 2)
C13_Witness ==
    /\ num_partitions = 2
    /\ PrimaryOnly(1) /\ HasBoth(2)
    /\ returned = "Some"
    /\ RecordsOf(1) = PrimaryAlone(1)
    /\ RecordsOf(2) = <<>>
    /\ progress(self) = <<1, 2>>

\* C14: the records returned over a run, with or without skip_file calls, are
\* in non-decreasing order of (partition order, primary join key).
C14_OutputOrdered ==
    \A i, j \in DOMAIN out :
        i < j =>
            \/ out[i].healpix_range.start < out[j].healpix_range.start
            \/ /\ out[i].healpix_range.start = out[j].healpix_range.start
               /\ out[i].gaia_source.partition = out[j].gaia_source.partition
               /\ out[i].gaia_source.source_id <= out[j].gaia_source.source_id

\* records of two partitions, two of them of one partition, after a skip_file
C14_Witness ==
    /\ Len(out) >= 3
    /\ skipped # {}
    /\ out[1].healpix_range.start # out[Len(out)].healpix_range.start

\* C15: a failure while opening a file or reading a row makes that same
\* read_record call return the error at once: the call returns no record, the
\* failed open or read is the last I/O it makes and is made once, and the
\* callers make no further call on the Records.
C15_ErrorReturnedAtOnce ==
    [][/\ failed_call' # failed_call =>
              /\ returned' = "Err"
              /\ out' = out
              /\ ~failed_call'[Len(failed_call')].ok
              /\ \A i \in 1..(Len(failed_call') - 1) : failed_call'[i].ok
       /\ returned = "Err" => vars' = vars]_vars

\* after a record was returned, a call opened the primary file of the next
\* partition and failed to open its secondary file
C15_Witness ==
    /\ returned = "Err"
    /\ out # <<>>
    /\ failed_call = <<Io("open", "gaia_source", TRUE),
                       Io("open", "astrophysical_parameters", FALSE)>>
    /\ is_some(readers.gaia_source)
    /\ is_none(readers.astrophysical_parameters)

\* the entries of a listing whose prefix is one of the two recognized names
Recognized(file_name) ==
    file_name.matches /\ file_name.prefix \in {"GaiaSource", "AstrophysicalParameters"}

\* C16: Data::open ignores the entries whose prefix is not one of the two
\* recognized names: the partitions, and the total progress() reports, are
\* those of the directory without these entries.
C16_UnrecognizedIgnored ==
    last_call = "open" =>
        /\ partitions = open(<<>>, SelectSeq(read_dir.entries, Recognized), 1)
        /\ new(partitions).num_partitions
               = Len(open(<<>>, SelectSeq(read_dir.entries, Recognized), 1))

\* the file names of a table with a range start, by place in the listing
EntriesOf(prefix, start) ==
    {i \in DOMAIN read_dir.entries :
        /\ read_dir.entries[i].matches
        /\ read_dir.entries[i].prefix = prefix
        /\ read_dir.entries[i].start = start}

\* the path Data::open holds for a table and a start: that of the entry
\* discovered last, None without one
LastPath(prefix, start) ==
    IF EntriesOf(prefix, start) = {} THEN None
    ELSE Some(read_dir.entries[CHOOSE i \in EntriesOf(prefix, start) :
                                   \A j \in EntriesOf(prefix, start) : j <= i])

\* C17: Data::open produces one partition per distinct range start, in
\* ascending order of start; the partition of a start holds the path of the
\* primary file and the path of the secondary file discovered with that
\* start, in whichever order they were discovered: a file sets the path of
\* its own table only.
C17_OnePartitionPerStart ==
    last_call = "open" =>
        /\ \A j, k \in DOMAIN partitions :
               j < k => partitions[j].healpix_range.start < partitions[k].healpix_range.start
        /\ \A i \in DOMAIN read_dir.entries :
               Recognized(read_dir.entries[i]) =>
                   \E k \in DOMAIN partitions :
                       partitions[k].healpix_range.start = read_dir.entries[i].start
        /\ \A k \in DOMAIN partitions :
               /\ \E i \in DOMAIN read_dir.entries :
                      /\ read_dir.entries[i].matches
                      /\ read_dir.entries[i].start = partitions[k].healpix_range.start
               /\ partitions[k].gaia_source
                      = LastPath("GaiaSource", partitions[k].healpix_range.start)
               /\ partitions[k].astrophysical_parameters
                      = LastPath("AstrophysicalParameters", partitions[k].healpix_range.start)

\* a secondary file and then a primary file of one start were discovered: one
\* partition holds both paths
C17_Witness ==
    /\ last_call = "open"
    /\ Len(read_dir.entries) = 2
    /\ read_dir.entries[1].prefix = "AstrophysicalParameters"
    /\ read_dir.entries[2].prefix = "GaiaSource"
    /\ Len(partitions) = 1
    /\ partitions[1].gaia_source = Some(read_dir.entries[2])
    /\ partitions[1].astrophysical_parameters = Some(read_dir.entries[1])

\* the match on the buffers finds an orphan secondary row: no read arm
\* applies, and either both buffers are occupied with the primary key after
\* the secondary key, or only the secondary buffer is occupied
OrphanFound(s) ==
    /\ ~(is_none(s.buffers.gaia_source) /\ is_some(s.readers.gaia_source))
    /\ ~(is_none(s.buffers.astrophysical_parameters)
         /\ is_some(s.readers.astrophysical_parameters))
    /\ is_some(s.buffers.astrophysical_parameters)
    /\ \/ is_none(s.buffers.gaia_source)
       \/ unwrap(s.buffers.gaia_source).source_id
              > unwrap(s.buffers.astrophysical_parameters).source_id

\* C20: a pass of the loop that finds an orphan secondary row empties the
\* secondary buffer, yields nothing and continues with the next pass.
C20_OrphanDiscarded ==
    \A o \in {open_next_partition(self)} :
        (~o.done /\ OrphanFound(o.s)) =>
            /\ match_buffers(o.s).ret = "continue"
            /\ match_buffers(o.s).record = None
            /\ match_buffers(o.s).s.buffers.astrophysical_parameters = None

\* C19: when the abort branch of the select completes, next_record returns
\* Ok(None) and no error: the loop stops, render returns Ok, the image is
\* saved; the records drawn are at all times the first records of the file;
\* and once ctrl_c has fired the loop eventually stops.
C19_AbortEndsStream ==
    /\ [](render.aborted =>
            /\ render.pc = "done"
            /\ render.result = "Ok"
            /\ render.saved)
    /\ [](/\ Len(render.canvas) <= Len(render.file.records)
          /\ render.canvas = SubSeq(render.file.records, 1, Len(render.canvas)))
    /\ (render.ctrl_c ~> render.pc # "loop")

\* the abort branch completed after one record and before the last: the loop
\* stopped early and the image was saved
C19_Witness ==
    /\ render.aborted
    /\ render.pc = "done"
    /\ render.saved
    /\ Len(render.canvas) = 1
    /\ render.file.num_records > 1
    /\ Len(render.file.records) > 1

\* the Records on which the match of the last pass of a read_record call from
\* s runs: after the partition advance of that pass, before its arm
RECURSIVE match_state(_)
match_again(s, o, p) ==
    IF o.done \/ p.ret # "continue" \/ p.s = s THEN o.s
    ELSE match_state(p.s)

match_state(s) == match_again(s, open_next_partition(s), loop_body(s))

\* both buffers are occupied and the primary key is less than the secondary key
LessCase(s) ==
    /\ is_some(s.buffers.gaia_source)
    /\ is_some(s.buffers.astrophysical_parameters)
    /\ unwrap(s.buffers.gaia_source).source_id
           < unwrap(s.buffers.astrophysical_parameters).source_id

\* C21: a read_record call whose match finds both buffers occupied with the
\* primary key less than the secondary key yields the primary row with
\* secondary = None, empties the primary buffer only, and leaves the secondary
\* buffer and the secondary reader as the match found them; the match of the
\* next call compares the next primary row of the file with that same
\* secondary row.
C21_LessKeepsSecondary ==
    /\ [][(last_call' = "read_record" /\ returned' # "Err") =>
            \A m \in {match_state(self)} :
               LessCase(m) =>
                 /\ returned' = "Some"
                 /\ out' = Append(out, Record(unwrap(m.current_healpix_range),
                                              unwrap(m.buffers.gaia_source), None))
                 /\ buffers'.gaia_source = None
                 /\ buffers'.astrophysical_parameters = m.buffers.astrophysical_parameters
                 /\ readers'.astrophysical_parameters = m.readers.astrophysical_parameters
                 /\ readers'.gaia_source = m.readers.gaia_source
                 /\ (is_some(m.readers.gaia_source) /\ unwrap(m.readers.gaia_source) # <<>>) =>
                       /\ match_state(self')
                            .buffers.astrophysical_parameters
                              = m.buffers.astrophysical_parameters
                       /\ match_state(self')
                            .buffers.gaia_source
                              = Some(Head(unwrap(m.readers.gaia_source)))]_vars

\* read_record has just yielded a primary row alone while a secondary row
\* with a greater key of the same partition stays buffered
C21_Witness ==
    /\ last_call = "read_record"
    /\ returned = "Some"
    /\ out[Len(out)].astrophysical_parameters = None
    /\ is_some(buffers.astrophysical_parameters)
    /\ is_some(readers.astrophysical_parameters)
    /\ unwrap(buffers.astrophysical_parameters).partition
           = out[Len(out)].gaia_source.partition
    /\ unwrap(buffers.astrophysical_parameters).source_id
           > out[Len(out)].gaia_source.source_id

Tables == {"gaia_source", "astrophysical_parameters"}

\* a row of a table has been returned in a record
Yielded(records, table, row) ==
    \E j \in DOMAIN records :
        IF table = "gaia_source"
        THEN records[j].gaia_source = row
        ELSE records[j].astrophysical_parameters = Some(row)

\* the rows of the file of a table in the current partition
CurrentRows(table) ==
    RowsOf(partitions[unwrap(current_healpix_range).start][table],
           unwrap(current_healpix_range).start)

\* the rows read so far from the file of a table in the current partition:
\* those an open reader no longer holds; the whole file when the reader was
\* closed at its end; unknown (none counted) when skip_file closed it
RowsRead(table) ==
    IF is_some(readers[table])
    THEN SubSeq(CurrentRows(table), 1,
                Len(CurrentRows(table)) - Len(unwrap(readers[table])))
    ELSE IF NoSkipIn(cursor) THEN CurrentRows(table)
    ELSE <<>>

\* C22: a row is read from a source only into an empty buffer, and is returned
\* in a record before the next row of that source is read: of the rows read
\* from a file of the current partition all but the last have been returned,
\* the last has been returned or is in the buffer; the rows of the files read
\* to their end in earlier partitions have all been returned; a row in a
\* buffer has not been returned; a buffer changes its row only when the row
\* it held has been returned; and no row is returned twice.
C22_NoRowOverwritten ==
    /\ [](\A table \in Tables :
            /\ is_some(current_healpix_range) =>
                 \A i \in DOMAIN RowsRead(table) :
                    \/ Yielded(out, table, RowsRead(table)[i])
                    \/ /\ i = Len(RowsRead(table))
                       /\ buffers[table] = Some(RowsRead(table)[i])
            /\ \A k \in 1..(cursor - 1) :
                 NoSkipIn(k) =>
                    \A i \in DOMAIN RowsOf(partitions[k][table], k) :
                       Yielded(out, table, RowsOf(partitions[k][table], k)[i])
            /\ is_some(buffers[table]) => ~Yielded(out, table, unwrap(buffers[table]))
            /\ \A i, j \in DOMAIN out :
                 /\ out[i].gaia_source = out[j].gaia_source => i = j
                 /\ (/\ is_some(out[i].astrophysical_parameters)
                     /\ out[i].astrophysical_parameters = out[j].astrophysical_parameters)
                    => i = j)
    /\ [][\A table \in Tables :
            (is_some(buffers[table]) /\ buffers'[table] # buffers[table]) =>
                Yielded(out', table, unwrap(buffers[table]))]_vars

\* one primary row of two has been read and returned alone, the reader still
\* open, while the first secondary row, read too, waits in its buffer
C22_Witness ==
    /\ is_some(readers.gaia_source)
    /\ is_some(readers.astrophysical_parameters)
    /\ Len(RowsRead("gaia_source")) = 1
    /\ Len(unwrap(readers.gaia_source)) = 1
    /\ Yielded(out, "gaia_source", RowsRead("gaia_source")[1])
    /\ Len(RowsRead("astrophysical_parameters")) = 1
    /\ buffers.astrophysical_parameters = Some(RowsRead("astrophysical_parameters")[1])

\* C23: every returned record carries the range of the partition its primary
\* row was read from; the current range is None before the first partition
\* advance and the range of the partition the cursor is on after it, it
\* changes only with a partition advance, and a record is returned only when
\* it is set.
C23_RangeOfPrimaryPartition ==
    /\ [](/\ \A j \in DOMAIN out :
               out[j].healpix_range = partitions[out[j].gaia_source.partition].healpix_range
          /\ current_healpix_range =
               IF cursor = 0 THEN None ELSE Some(partitions[cursor].healpix_range)
          /\ out # <<>> => is_some(current_healpix_range))
    /\ [][/\ current_healpix_range' # current_healpix_range
             => Len(partitions_iter') < Len(partitions_iter)
          /\ \A j \in (DOMAIN out') \ (DOMAIN out) :
                /\ is_some(current_healpix_range')
                /\ out'[j].healpix_range = unwrap(current_healpix_range')]_vars

\* records of two partitions have been returned, each with the range of the
\* partition of its primary row
C23_Witness ==
    /\ Len(partitions) = 2
    /\ Len(out) >= 2
    /\ out[1].healpix_range = partitions[1].healpix_range
    /\ out[1].gaia_source.partition = 1
    /\ out[Len(out)].healpix_range = partitions[2].healpix_range
    /\ out[Len(out)].gaia_source.partition = 2

\* C24: in every partition Data::open builds the range has end = start, while
\* the second number of every file name is greater than the first.
C24_EndIsStart ==
    last_call = "open" =>
        /\ \A k \in DOMAIN partitions :
              partitions[k].healpix_range.end = partitions[k].healpix_range.start
        /\ \A i \in DOMAIN read_dir.entries :
              read_dir.entries[i].matches =>
                 /\ read_dir.entries[i].end > read_dir.entries[i].start
                 /\ \E k \in DOMAIN partitions :
                       partitions[k].healpix_range
                           = [start |-> read_dir.entries[i].start,
                              end |-> read_dir.entries[i].start]

\* Data::open has built a partition from a file whose name ends two after its start
C24_Witness ==
    /\ last_call = "open"
    /\ Len(partitions) >= 1
    /\ is_some(partitions[1].gaia_source)
    /\ unwrap(partitions[1].gaia_source).end = unwrap(partitions[1].gaia_source).start + 2
    /\ partitions[1].healpix_range.end = unwrap(partitions[1].gaia_source).start

\* C25: a partition advance finds both buffers empty, and in every returned
\* record with a secondary row that row was read from the partition the
\* primary row was read from.
C25_SamePartitionJoin ==
    /\ \A j \in DOMAIN out :
          is_some(out[j].astrophysical_parameters) =>
             unwrap(out[j].astrophysical_parameters).partition
                 = out[j].gaia_source.partition
    /\ (readers = Default /\ partitions_iter # <<>>) => buffers = Default

\* C26: once read_record has returned Ok(None), every later read_record call,
\* with or without skip_file calls in between, returns Ok(None) again: it
\* returns no record, opens and reads no file, and progress() is and stays
\* (total, total).
C26_EndIsSticky ==
    /\ [](returned = "None" =>
            /\ progress(self) = <<num_partitions, num_partitions>>
            /\ io_ops(self) = <<>>
            /\ read_record_failures(self, <<>>) = {}
            /\ read_record(self, <<>>).ret = "None")
    /\ [][returned = "None" =>
            /\ returned' = "None"
            /\ out' = out
            /\ log' = log
            /\ progress(self') = progress(self)]_vars

\* the stream of a catalog with records has ended and skip_file was called
\* after the end
C26_Witness ==
    /\ returned = "None"
    /\ last_call = "skip_file"
    /\ out # <<>>
    /\ \E e \in skipped : e.partition = num_partitions /\ e.yielded = Len(out)

\* the records in the file export has written, after the 8-byte count
WrittenRecords == read_all(SubSeq(export.file, 9, Len(export.file)))

\* the primary rows of partition k that have all five columns, in file order
ExportableRows(k) ==
    SelectSeq(PrimaryRows(k), LAMBDA row : is_some(Columns(row, export.complete)))

Min(a, b) == IF a <= b THEN a ELSE b

\* C27: an export that has returned Ok has written, from each partition, the
\* first min(limit_per_file, n) of its n exportable records, and no other.
C27_LimitPerPartition ==
    export.pc = "done" =>
        \A k \in DOMAIN partitions :
            [i \in DOMAIN SelectSeq(WrittenRecords,
                                    LAMBDA record : record.healpix_range.start = k) |->
                SelectSeq(WrittenRecords,
                          LAMBDA record : record.healpix_range.start = k)[i].source_id]
            = [i \in 1..Min(export.limit_per_file, Len(ExportableRows(k))) |->
                ExportableRows(k)[i].source_id]

\* the engine records returned so far for which Record::from_gaia is Some, converted
RECURSIVE Converted(_)
Converted(records) ==
    IF records = <<>> THEN <<>>
    ELSE from_gaia(Head(records), export.complete) \o Converted(Tail(records))

\* C28: when export has returned Ok, the count in the first 8 bytes of the
\* file is the number of records written after it, and that is the number of
\* engine records returned for which from_gaia is Some; until then the count
\* in the file is 0.
C28_HeaderCountsRecords ==
    /\ export.pc = "done" =>
          /\ from_be_bytes(SubSeq(export.file, 1, 8)) * RecordLen = Len(export.file) - 8
          /\ from_be_bytes(SubSeq(export.file, 1, 8)) = Len(Converted(out))
          /\ from_be_bytes(SubSeq(export.file, 1, 8)) = export.count
    /\ export.pc \in {"loop", "waiting"} =>
          /\ from_be_bytes(SubSeq(export.file, 1, 8)) = 0
          /\ export.count * RecordLen = Len(export.file) - 8

\* an export has returned Ok after writing two records and passing over a
\* record that lacks a column
C28_Witness ==
    /\ export.pc = "done"
    /\ from_be_bytes(SubSeq(export.file, 1, 8)) = 2
    /\ Len(out) = 3

\* C29: RecordReader on a file export wrote yields num_records records, the
\* records export wrote, in order and field by field, then Ok(None) on every
\* further call; num_read never exceeds num_records.
C29_RoundTrip ==
    /\ render.reader.num_read <= render.reader.num_records
    /\ render.pc # "idle" =>
          /\ render.reader.num_records = export.count
          /\ render.canvas = SubSeq(Converted(out), 1, render.reader.num_read)
    /\ render.pc = "done" =>
          /\ render.result = "Ok"
          /\ render.canvas = Converted(out)
          /\ Len(render.canvas) = render.reader.num_records
          /\ reader_read_record(render.reader, render.file)
                = [reader |-> render.reader, ret |-> "None", record |-> None]

\* a file of two records with different keys has been read back to its end
C29_Witness ==
    /\ render.pc = "done"
    /\ Len(render.canvas) = 2
    /\ render.canvas[1].source_id # render.canvas[2].source_id
    /\ render.canvas[1].longitude # render.canvas[1].latitude

\* C30: a read_record call dropped at a suspension point leaves the Records
\* such that the next read_record call returns what the dropped call would
\* have returned, and leaves the Records as that call would have left it.
C30_CancelSafe ==
    [][last_call' = "cancelled" =>
          read_record(self', <<>>) = read_record(self, <<>>)]_vars

====
